---- MODULE Spec2Model ----
(***************************************************************************)
(* Model of the two batch scripts of KellyList:                            *)
(*   kelly_to_anki.py                 (the Kelly pipeline)                 *)
(*   riksdagen_law_glossary_anki.py   (the glossary pipeline)              *)
(*                                                                         *)
(* Text is a sequence of tokens.  A token is a record [k, v]: k is the     *)
(* kind of the token and v a sequence of strings.                          *)
(*   k = "c"    one character or an atomic piece of plain text, v = <<c>>  *)
(*   k = "a"    an anchor <a href="URL">...</a>, v = URL                   *)
(*   k = "h"    href="URL" in markup the anchor pattern does not match     *)
(*   k = "img"  one of the three inline <img> markers, v = <<which>>       *)
(*   k = "s"    the literal text [sound:NAME], v = NAME                    *)
(* A URL is <<directory part>> \o file name; a file name is a sequence of  *)
(* characters ending in its extension.  Characters outside ASCII are named *)
(* in ASCII: "a_ring" is the letter a with ring, "o_uml" o with diaeresis. *)
(***************************************************************************)
EXTENDS Naturals, Sequences, FiniteSets

(* ---------------------------------------------------------------- bounds *)

\* Most rows of the input table, and most headings of a scraped page.
MaxTerms == 2

(* ------------------------------------------------------------ characters *)

Whitespace == {" ", "\n", "\t"}
AsciiAlnum == {"a", "b", "f", "r", "x", "A"}
UnicodeLetters == {"a_ring", "o_uml"}

Tok(k, v) == [k |-> k, v |-> v]
Ch(c) == Tok("c", <<c>>)
NL == Ch("\n")
TAB == Ch("\t")

\* A plain string as text.
Text(s) == [j \in 1..Len(s) |-> Ch(s[j])]

RECURSIVE Flatten(_)
\* The concatenation of a sequence of sequences: ''.join(...)
Flatten(ss) == IF ss = <<>> THEN <<>> ELSE Head(ss) \o Flatten(Tail(ss))

RECURSIVE LStrip(_)
LStrip(s) ==
    IF s # <<>> /\ Head(s) \in Whitespace THEN LStrip(Tail(s)) ELSE s

RECURSIVE RStrip(_)
RStrip(s) ==
    IF s # <<>> /\ s[Len(s)] \in Whitespace
    THEN RStrip(SubSeq(s, 1, Len(s) - 1)) ELSE s

\* str.strip()
Strip(s) == RStrip(LStrip(s))

RECURSIVE BeforeParen(_)
\* s.split('(')[0]
BeforeParen(s) ==
    IF s = <<>> \/ Head(s) = "(" THEN <<>>
    ELSE <<Head(s)>> \o BeforeParen(Tail(s))

LowerChar(c) == IF c = "A" THEN "a" ELSE c
\* str.lower()
Lower(s) == [j \in 1..Len(s) |-> LowerChar(s[j])]

(* ------------------------------------------------- kelly: pure functions *)

\* No value: None.  A looked-up text that is None or '' is falsy in Python.
None == <<>>

Img(which) == Tok("img", <<which>>)
Anchor(url) == Tok("a", url)
Href(url) == Tok("h", url)
Sound(name) == Tok("s", name)

\* One re.sub of get_folkets_entry on one token: the three known <img>
\* markers become their emoji, anything else is left alone.
ReplaceImg(t) ==
    IF t = Img("grafik/flag_18x12_sv.png") THEN Ch("emoji_flag_sv")
    ELSE IF t = Img("grafik/flag_18x12_en.png") THEN Ch("emoji_flag_en")
    ELSE IF t = Img("grafik/sound.gif") THEN Ch("emoji_speaker")
    ELSE t

\* str(p) of one paragraph element.
RenderP(p) == <<Ch("<p>")>> \o [j \in 1..Len(p) |-> ReplaceImg(p[j])] \o <<Ch("</p>")>>

\* get_folkets_entry, given what fetch_html did: doc.kind = "exc" when it
\* raised, else doc.paras are the <p> elements of the fetched page.
get_folkets_entry(doc) ==
    IF doc.kind = "exc" THEN None
    ELSE IF doc.paras = <<>> THEN None
    ELSE Flatten([j \in 1..Len(doc.paras) |-> RenderP(doc.paras[j])])

\* The URL pattern of extract_mp3_url: https?://[^'"]+\.mp3
IsMp3Url(u) ==
    /\ Len(u) >= 3
    /\ u[1] \in {"http://h1/", "https://h1/", "https://h2/"}
    /\ u[Len(u)] = ".mp3"

MatchesHref(t) == t.k \in {"a", "h"} /\ IsMp3Url(t.v)

\* extract_mp3_url: the first mp3 URL of the fragment, or None.
extract_mp3_url(html) ==
    IF \E j \in 1..Len(html) : MatchesHref(html[j])
    THEN html[CHOOSE j \in 1..Len(html) :
                /\ MatchesHref(html[j])
                /\ \A m \in 1..(j - 1) : ~MatchesHref(html[m])].v
    ELSE None

\* os.path.basename of a URL <<directory part>> \o file name.
Basename(url) == Tail(url)

\* The re.sub of process_word: every anchor on mp3_url becomes [sound:name].
SubAnchors(html, mp3_url, name) ==
    [j \in 1..Len(html) |->
        IF html[j] = Anchor(mp3_url) THEN Sound(name) ELSE html[j]]

\* re.sub(r'[^A-Za-z0-9_-]', '_', query_text)
SafeNameChar(c) == IF c \in AsciiAlnum \cup {"_", "-"} THEN c ELSE "_"
SafeName(q) == [j \in 1..Len(q) |-> SafeNameChar(q[j])]
SynthName(q) == SafeName(q) \o <<".mp3">>

\* The fallback lookup made for every term, whatever the primary returned.
FallbackAlways(entry_html) == TRUE

\* process_word: "if not entry_html" after the primary lookup.
NeedsFallback(entry_html) == entry_html = None

\* process_word: "not translated or not isinstance(translated, str)", negated.
\* res.kind is "exc" (translate_text raised), "none", "nonstr" or "str".
Usable(res) == res.kind = "str" /\ res.val # <<>>

\* process_word: "if not display_text: return None, None"
SkipsTerm(display_text, query_text) == display_text = <<>>

\* Synthesis with no look at the audio directory.
SynthesizeAlways(files, name) == TRUE

\* "if not os.path.exists(local)" before the download and before the synthesis.
MustDownload(files, name) == name \notin files
MustSynthesize(files, name) == name \notin files

\* main: definition.replace('\n', '<br>')
ReplaceNewlines(definition) ==
    [j \in 1..Len(definition) |->
        IF definition[j] = NL THEN Ch("<br>") ELSE definition[j]]

\* main: '[sound:' in def_line
HasSoundTag(def_line) == \E j \in 1..Len(def_line) : def_line[j].k = "s"

\* The content field with no marker appended.
DefLineNoMarker(definition, sound) == ReplaceNewlines(definition)

\* main: the content field of the row.
DefLine(definition, sound) ==
    LET def_line == ReplaceNewlines(definition)
    IN  IF sound # None /\ ~HasSoundTag(def_line)
        THEN def_line \o <<Ch(" "), Sound(sound)>>
        ELSE def_line

\* main: f"{word}\t{def_line}\t{tags_field}\n"
KellyRow(word, def_line, tag) ==
    Text(word) \o <<TAB>> \o def_line \o <<TAB>> \o Text(tag) \o <<NL>>

\* The header with its last two directives the other way round.
KellyHeaderSwapped ==
    << <<Ch("#separator:Tab"), NL>>,
       <<Ch("#columns:Word"), TAB, Ch("Definition"), TAB, Ch("Tags"), NL>>,
       <<Ch("#deck:KellyList"), NL>>,
       <<Ch("#notetype:Basic"), NL>> >>

\* main: the four header writes.
KellyHeader ==
    << <<Ch("#separator:Tab"), NL>>,
       <<Ch("#columns:Word"), TAB, Ch("Definition"), TAB, Ch("Tags"), NL>>,
       <<Ch("#notetype:Basic"), NL>>,
       <<Ch("#deck:KellyList"), NL>> >>

\* main: df.dropna(subset=[SWEDISH_COLUMN]); a missing level becomes ''.
RECURSIVE DropNa(_)
DropNa(rows) ==
    IF rows = <<>> THEN <<>>
    ELSE IF Head(rows).nan THEN DropNa(Tail(rows))
    ELSE <<Head(rows)>> \o DropNa(Tail(rows))

(* ------------------------------------------------------- kelly: the world *)

U1 == <<"https://h1/", "a", ".mp3">>
U2 == <<"https://h2/", "x", ".mp3">>
PageUrl == <<"https://h1/", "x", ".html">>

\* What fetch_html can do for a query: raise, or return a page.
\*   plain   text with a newline, no audio link
\*   audio   a link to a page, then anchors on two mp3 files, the first twice
\*   marked  the literal text [sound:y.mp3], and an mp3 link outside an anchor
DocIds == {"exc", "nopara", "plain", "audio", "marked"}
Doc(id) ==
    CASE id = "exc"    -> [kind |-> "exc", paras |-> <<>>]
      [] id = "nopara" -> [kind |-> "html", paras |-> <<>>]
      [] id = "plain"  -> [kind |-> "html", paras |-> << <<Ch("x"), NL, Ch("y")>> >>]
      [] id = "audio"  -> [kind |-> "html", paras |->
                            << <<Img("grafik/flag_18x12_sv.png"), Ch("x"),
                                 Img("grafik/sound.gif"), Anchor(PageUrl), Anchor(U1)>>,
                               <<Img("grafik/flag_18x12_en.png"), Ch("y"),
                                 Anchor(U2), Anchor(U1)>> >>]
      [] id = "marked" -> [kind |-> "html", paras |->
                            << <<Ch("x"), Sound(<<"y", ".mp3">>), Href(U2)>> >>]

\* What translate_text can do for a query.
TrIds == {"exc", "none", "empty", "nonstr", "text"}
Tr(id) ==
    CASE id = "exc"    -> [kind |-> "exc", val |-> <<>>]
      [] id = "none"   -> [kind |-> "none", val |-> <<>>]
      [] id = "empty"  -> [kind |-> "str", val |-> <<>>]
      [] id = "nonstr" -> [kind |-> "nonstr", val |-> <<Ch("t")>>]
      [] id = "text"   -> [kind |-> "str", val |-> <<Ch("t"), NL, Ch("u"), TAB, Ch("v")>>]

\* Rows of the input table: the term cell, the level cell, and whether the
\* term cell is missing.
CsvRows ==
    { [word |-> <<"f", "a_ring", "r", " ", "(", "b", ")">>, tag |-> <<" ", "A", "1">>,
       nan |-> FALSE],
      [word |-> <<"f", "o_uml", "r">>, tag |-> <<>>, nan |-> FALSE],
      [word |-> <<"(", "b", ")">>, tag |-> <<>>, nan |-> FALSE],
      [word |-> <<"A", "\n", "b">>, tag |-> <<"A", "1">>, nan |-> FALSE],
      [word |-> <<" ">>, tag |-> <<>>, nan |-> FALSE],
      [word |-> <<>>, tag |-> <<"A", "1">>, nan |-> TRUE] }

RECURSIVE SeqsUpTo(_, _)
\* The sequences over S of length at most n.
SeqsUpTo(S, n) ==
    IF n = 0 THEN {<<>>}
    ELSE LET shorter == SeqsUpTo(S, n - 1)
         IN  shorter \cup {<<x>> \o t : x \in S, t \in {u \in shorter : Len(u) = n - 1}}

(* ------------------------------------------------------------------ state *)

VARIABLES
    script,         \* which script runs: "kelly" or "gloss"
    csv,            \* kelly: the rows of the input table
    site,           \* gloss: the two pages, [sw, en]
    run,            \* 1 in the first run of the script, 2 in the second
    pc,             \* where the script is
    df,             \* kelly: the rows after dropna
    sw_entries,     \* gloss: scrape_swedish_terms_and_defs()
    eng_map,        \* gloss: scrape_english_mapping(), a function of the keys
    i,              \* rows (entries) the loop has taken
    word,           \* main: word (kelly), term (gloss)
    tag,            \* main: tag
    query_text,     \* process_word: query_text
    entry_html,     \* process_word: entry_html
    sound_filename, \* process_word: sound_filename; gloss: filename
    media,          \* the file names in the audio directory
    out,            \* the output file: the writes so far, in order
    calls,          \* history: the external calls made, in order
    via             \* history: how the audio of the term was resolved:
                    \* "link" (the file of an mp3 link), "synth" or ""

vars == <<script, csv, site, run, pc, df, sw_entries, eng_map, i, word, tag,
          query_text, entry_html, sound_filename, media, out, calls, via>>

inputs == <<script, csv, site>>
locals == <<word, tag, query_text, entry_html, sound_filename, via>>
gloss_vars == <<sw_entries, eng_map>>

\* One write to the output file: text is what was written.  The rest is
\* history: kind tells a header write ("hdr") from a row ("rec"), and for a
\* row, row is its number, query the query text of its term, sound the audio
\* file resolved for it and how is via.
Chunk(kind, text, row, query, sound, how) ==
    [kind |-> kind, text |-> text, row |-> row, query |-> query,
     sound |-> sound, via |-> how]

HeaderChunks(header) ==
    [j \in 1..Len(header) |-> Chunk("hdr", header[j], 0, <<>>, None, "")]

Call(op, arg, res) == [run |-> run, row |-> i, op |-> op, arg |-> arg, res |-> res]

\* The services answer a second run as they answered the first: the result
\* an earlier run got for this row, when there is one.
SameAnswer(op, res) ==
    \/ run = 1
    \/ \A j \in 1..Len(calls) :
         (calls[j].run < run /\ calls[j].row = i /\ calls[j].op = op)
            => calls[j].res = res

\* What the history keeps of a call: "none" when it raised or gave nothing
\* usable, else "ok" (a download, a synthesis) or the name of what a lookup
\* returned (Doc, Tr).
FolketsRes(id) == IF get_folkets_entry(Doc(id)) = None THEN "none" ELSE id
TranslateRes(id) == IF Usable(Tr(id)) THEN id ELSE "none"

NoLocals ==
    /\ word' = <<>>
    /\ tag' = <<>>
    /\ query_text' = <<>>
    /\ entry_html' = None
    /\ sound_filename' = None
    /\ via' = ""

(* ---------------------------------------------------------- kelly: steps *)

\* main: read the table, open the output file and write the header.
KellyOpen ==
    /\ script = "kelly"
    /\ pc = "start"
    /\ df' = DropNa(csv)
    /\ out' = HeaderChunks(KellyHeader)
    /\ i' = 0
    /\ pc' = "loop"
    /\ UNCHANGED <<inputs, run, gloss_vars, locals, media, calls>>

\* main: take the next row; process_word up to its first lookup.
KellyNextRow ==
    /\ script = "kelly"
    /\ pc = "loop"
    /\ i < Len(df)
    /\ i' = i + 1
    /\ LET w == Strip(df[i + 1].word)
           display_text == Strip(w)
           q == Strip(BeforeParen(display_text))
       IN  IF SkipsTerm(display_text, q)
           THEN /\ NoLocals
                /\ pc' = "loop"
           ELSE /\ word' = w
                /\ tag' = Strip(df[i + 1].tag)
                /\ query_text' = q
                /\ UNCHANGED <<entry_html, sound_filename, via>>
                /\ pc' = "folkets"
    /\ UNCHANGED <<inputs, run, df, gloss_vars, media, out, calls>>

\* process_word 1): the primary lookup.
KellyFolkets ==
    /\ pc = "folkets"
    /\ \E id \in DocIds :
         LET html == get_folkets_entry(Doc(id))
         IN  /\ SameAnswer("folkets", FolketsRes(id))
             /\ calls' = Append(calls, Call("folkets", Lower(query_text), FolketsRes(id)))
             /\ entry_html' = html
             /\ pc' = IF NeedsFallback(html) THEN "translate" ELSE "audio"
    /\ UNCHANGED <<inputs, run, df, gloss_vars, i, word, tag, query_text,
                   sound_filename, via, media, out>>

\* process_word 2): the fallback lookup.
KellyTranslate ==
    /\ pc = "translate"
    /\ \E id \in TrIds :
         /\ SameAnswer("translate", TranslateRes(id))
         /\ calls' = Append(calls, Call("translate", query_text, TranslateRes(id)))
         /\ IF Usable(Tr(id))
            THEN /\ entry_html' = Tr(id).val
                 /\ pc' = "audio"
                 /\ UNCHANGED <<word, tag, query_text, sound_filename, via>>
            ELSE /\ NoLocals
                 /\ pc' = "loop"
    /\ UNCHANGED <<inputs, run, df, gloss_vars, i, media, out>>

\* process_word 3): the audio link of the content, its download and the
\* substitution of the marker for the anchor.
KellyAudio ==
    /\ pc = "audio"
    /\ LET mp3_url == extract_mp3_url(entry_html)
           name == Basename(mp3_url)
           resolved == /\ sound_filename' = name
                       /\ via' = "link"
                       /\ entry_html' = SubAnchors(entry_html, mp3_url, name)
                       /\ pc' = "row"
       IN  IF mp3_url = None
           THEN /\ pc' = "tts"
                /\ UNCHANGED <<entry_html, sound_filename, via, media, calls>>
           ELSE IF ~MustDownload(media, name)
           THEN /\ resolved
                /\ UNCHANGED <<media, calls>>
           ELSE \E ok \in BOOLEAN :
                  /\ calls' = Append(calls,
                        Call("download", mp3_url, IF ok THEN "ok" ELSE "none"))
                  /\ IF ok
                     THEN /\ media' = media \cup {name}
                          /\ resolved
                     ELSE /\ pc' = "tts"
                          /\ UNCHANGED <<entry_html, sound_filename, via, media>>
    /\ UNCHANGED <<inputs, run, df, gloss_vars, i, word, tag, query_text, out>>

\* process_word 4): speech synthesis.  An exception of tts_save is not caught.
KellyTts ==
    /\ pc = "tts"
    /\ LET name == SynthName(query_text)
       IN  IF ~MustSynthesize(media, name)
           THEN /\ sound_filename' = name
                /\ via' = "synth"
                /\ pc' = "row"
                /\ UNCHANGED <<media, calls>>
           ELSE \E ok \in BOOLEAN :
                  /\ calls' = Append(calls,
                        Call("tts", query_text, IF ok THEN "ok" ELSE "none"))
                  /\ IF ok
                     THEN /\ media' = media \cup {name}
                          /\ sound_filename' = name
                          /\ via' = "synth"
                          /\ pc' = "row"
                     ELSE /\ pc' = "aborted"
                          /\ UNCHANGED <<sound_filename, via, media>>
    /\ UNCHANGED <<inputs, run, df, gloss_vars, i, word, tag, query_text,
                   entry_html, out>>

\* main: write the row of the term.
KellyWriteRow ==
    /\ script = "kelly"
    /\ pc = "row"
    /\ out' = Append(out,
                Chunk("rec", KellyRow(word, DefLine(entry_html, sound_filename), tag),
                      i, query_text, sound_filename, via))
    /\ NoLocals
    /\ pc' = "loop"
    /\ UNCHANGED <<inputs, run, df, gloss_vars, i, media, calls>>

\* main: the loop ends, the file is closed.
KellyDone ==
    /\ script = "kelly"
    /\ pc = "loop"
    /\ i = Len(df)
    /\ pc' = "done"
    /\ UNCHANGED <<inputs, run, df, gloss_vars, i, locals, media, out, calls>>

\* The script has run to its end and is started a second time: the audio
\* directory and the output file are as the first run left them.
Rerun ==
    /\ pc = "done"
    /\ run = 1
    /\ run' = 2
    /\ pc' = "start"
    /\ i' = 0
    /\ df' = <<>>
    /\ sw_entries' = <<>>
    /\ eng_map' = <<>>
    /\ NoLocals
    /\ UNCHANGED <<inputs, media, out, calls>>

InitKelly ==
    /\ script = "kelly"
    /\ csv \in SeqsUpTo(CsvRows, MaxTerms)
    /\ site = <<>>
    /\ run = 1
    /\ pc = "start"
    /\ df = <<>>
    /\ sw_entries = <<>>
    /\ eng_map = <<>>
    /\ i = 0
    /\ word = <<>>
    /\ tag = <<>>
    /\ query_text = <<>>
    /\ entry_html = None
    /\ sound_filename = None
    /\ media = {}
    /\ out = <<>>
    /\ calls = <<>>
    /\ via = ""

NextKelly ==
    \/ KellyOpen
    \/ KellyNextRow
    \/ KellyFolkets
    \/ KellyTranslate
    \/ KellyAudio
    \/ KellyTts
    \/ KellyWriteRow
    \/ KellyDone

\* The Kelly pipeline, run once.
SpecKelly == InitKelly /\ [][NextKelly]_vars

(* ------------------------------------------------ gloss: pure functions *)

\* sanitize_filename: c if c.isalnum() or c in '-_' else '_'
IsAlnum(c) == c \in AsciiAlnum \cup UnicodeLetters
SanitizeChar(c) == IF IsAlnum(c) \/ c \in {"-", "_"} THEN c ELSE "_"
sanitize_filename(text) == [j \in 1..Len(text) |-> SanitizeChar(text[j])]

\* A page is its <h3> elements in order, each with the text of the <p> that
\* follows it when there is one: [h3, hasP, p].
RECURSIVE scrape_swedish_terms_and_defs(_)
scrape_swedish_terms_and_defs(page) ==
    IF page = <<>> THEN <<>>
    ELSE LET h == Head(page)
             rest == scrape_swedish_terms_and_defs(Tail(page))
         IN  IF h.hasP
             THEN <<[term |-> Strip(h.h3), sw_def |-> Strip(h.p)]>> \o rest
             ELSE rest

\* "(Sw:" is one token of a heading's text.
SwMark == "(Sw:"

RECURSIVE BeforeMark(_)
\* text.split("(Sw:")[0]
BeforeMark(s) ==
    IF s = <<>> \/ Head(s) = SwMark THEN <<>>
    ELSE <<Head(s)>> \o BeforeMark(Tail(s))

RECURSIVE AfterMark(_)
\* text.split("(Sw:")[1], for a text that holds the mark
AfterMark(s) ==
    IF s = <<>> THEN <<>>
    ELSE IF Head(s) = SwMark THEN BeforeMark(Tail(s))
    ELSE AfterMark(Tail(s))

RECURSIVE RStripParen(_)
\* .rstrip(")")
RStripParen(s) ==
    IF s # <<>> /\ s[Len(s)] = ")"
    THEN RStripParen(SubSeq(s, 1, Len(s) - 1)) ELSE s

HasMark(s) == \E j \in 1..Len(s) : s[j] = SwMark

\* mapping[key] = value
Put(m, key, value) ==
    [x \in DOMAIN m \cup {key} |-> IF x = key THEN value ELSE m[x]]

RECURSIVE EnglishInto(_, _)
EnglishInto(mapping, page) ==
    IF page = <<>> THEN mapping
    ELSE LET h == Head(page)
             text == Strip(h.h3)
             eng_term == Strip(BeforeMark(text))
             sw_key == Strip(RStripParen(AfterMark(text)))
             eng_def == IF h.hasP THEN Strip(h.p) ELSE <<>>
         IN  IF HasMark(text)
             THEN EnglishInto(Put(mapping, Lower(sw_key),
                                  [eng_term |-> eng_term, eng_def |-> eng_def]),
                              Tail(page))
             ELSE EnglishInto(mapping, Tail(page))

scrape_english_mapping(page) == EnglishInto(<<>>, page)

\* eng_map.get(term.lower(), ("", ""))
EngEntry(mapping, term) ==
    IF Lower(term) \in DOMAIN mapping THEN mapping[Lower(term)]
    ELSE [eng_term |-> <<>>, eng_def |-> <<>>]

\* main: eng_html
EngHtml(e) ==
    IF e.eng_term # <<>>
    THEN <<Ch("<div style=\"font-size:1.2em; font-weight:bold;\">")>>
         \o Text(e.eng_term) \o <<Ch("</div>"), Ch("<div>")>>
         \o Text(e.eng_def) \o <<Ch("</div>")>>
    ELSE <<>>

\* main: f"{front}\t{back}\n"
GlossRow(term, sw_def, e, filename) ==
    LET back == Text(sw_def) \o <<Ch("<br><br>")>> \o EngHtml(e)
        front == Text(term) \o <<Ch(" "), Sound(filename)>>
    IN  front \o <<TAB>> \o back \o <<NL>>

\* main: the four header writes.
GlossHeader ==
    << <<Ch("#separator:Tab"), NL>>,
       <<Ch("#columns:Swedish"), TAB, Ch("Definition"), NL>>,
       <<Ch("#notetype:Basic"), NL>>,
       <<Ch("#deck:LawGlossary"), NL, NL>> >>

(* ------------------------------------------------------- gloss: the world *)

SwHeadings ==
    { [h3 |-> <<" ", "a">>, hasP |-> TRUE, p |-> <<"d">>],
      [h3 |-> <<"a", " ", "b">>, hasP |-> TRUE, p |-> <<"d", "\n", "e">>],
      [h3 |-> <<"a", ".", "b">>, hasP |-> TRUE, p |-> <<"d">>],
      [h3 |-> <<"A">>, hasP |-> TRUE, p |-> <<"d", "\t", "e">>],
      [h3 |-> <<"a_ring">>, hasP |-> TRUE, p |-> <<" ", "d", " ">>],
      [h3 |-> <<"x">>, hasP |-> FALSE, p |-> <<>>] }

EnPages ==
    { <<>>,
      << [h3 |-> <<"A", "y", "e", " ", SwMark, " ", "a", ")">>, hasP |-> TRUE,
          p |-> <<"e">>],
         [h3 |-> <<"b">>, hasP |-> TRUE, p |-> <<"f">>],
         [h3 |-> <<SwMark, "A", " ", "b", ")", ")">>, hasP |-> FALSE, p |-> <<>>] >>,
      << [h3 |-> <<"x", " ", SwMark, " ", "A", ")">>, hasP |-> TRUE, p |-> <<"e">>],
         [h3 |-> <<"b", " ", SwMark, "a", ")", SwMark, "z", ")">>, hasP |-> TRUE,
          p |-> <<"f", "\n", "g">>] >> }

(* ---------------------------------------------------------- gloss: steps *)

\* main: the two scrapes.  A failed request raises and nothing is written.
GlossScrape ==
    /\ script = "gloss"
    /\ pc = "start"
    /\ \E ok \in BOOLEAN :
         IF ok
         THEN /\ sw_entries' = scrape_swedish_terms_and_defs(site.sw)
              /\ eng_map' = scrape_english_mapping(site.en)
              /\ pc' = "open"
         ELSE /\ pc' = "aborted"
              /\ UNCHANGED gloss_vars
    /\ UNCHANGED <<inputs, run, df, i, locals, media, out, calls>>

\* main: open the output file and write the header.
GlossOpen ==
    /\ pc = "open"
    /\ out' = HeaderChunks(GlossHeader)
    /\ i' = 0
    /\ pc' = "loop"
    /\ UNCHANGED <<inputs, run, df, gloss_vars, locals, media, calls>>

\* main: take the next entry and generate or reuse its audio.
GlossTts ==
    /\ script = "gloss"
    /\ pc = "loop"
    /\ i < Len(sw_entries)
    /\ LET term == sw_entries[i + 1].term
           filename == sanitize_filename(term) \o <<".mp3">>
           taken == /\ i' = i + 1
                    /\ word' = term
                    /\ sound_filename' = filename
                    /\ via' = "synth"
                    /\ pc' = "row"
       IN  IF ~MustSynthesize(media, filename)
           THEN /\ taken
                /\ UNCHANGED <<media, calls>>
           ELSE \E ok \in BOOLEAN :
                  /\ calls' = Append(calls,
                        [run |-> run, row |-> i + 1, op |-> "tts", arg |-> term,
                         res |-> IF ok THEN "ok" ELSE "none"])
                  /\ IF ok
                     THEN /\ media' = media \cup {filename}
                          /\ taken
                     ELSE /\ pc' = "aborted"
                          /\ i' = i + 1
                          /\ UNCHANGED <<word, sound_filename, via, media>>
    /\ UNCHANGED <<inputs, run, df, gloss_vars, tag, query_text, entry_html, out>>

\* main: write the row of the entry.
GlossWriteRow ==
    /\ script = "gloss"
    /\ pc = "row"
    /\ out' = Append(out,
                Chunk("rec",
                      GlossRow(word, sw_entries[i].sw_def, EngEntry(eng_map, word),
                               sound_filename),
                      i, word, sound_filename, via))
    /\ NoLocals
    /\ pc' = "loop"
    /\ UNCHANGED <<inputs, run, df, gloss_vars, i, media, calls>>

\* main: the loop ends, the file is closed.
GlossDone ==
    /\ script = "gloss"
    /\ pc = "loop"
    /\ i = Len(sw_entries)
    /\ pc' = "done"
    /\ UNCHANGED <<inputs, run, df, gloss_vars, i, locals, media, out, calls>>

InitGloss ==
    /\ script = "gloss"
    /\ csv = <<>>
    /\ \E sw \in SeqsUpTo(SwHeadings, MaxTerms), en \in EnPages :
         site = [sw |-> sw, en |-> en]
    /\ run = 1
    /\ pc = "start"
    /\ df = <<>>
    /\ sw_entries = <<>>
    /\ eng_map = <<>>
    /\ i = 0
    /\ word = <<>>
    /\ tag = <<>>
    /\ query_text = <<>>
    /\ entry_html = None
    /\ sound_filename = None
    /\ media = {}
    /\ out = <<>>
    /\ calls = <<>>
    /\ via = ""

NextGloss ==
    \/ GlossScrape
    \/ GlossOpen
    \/ GlossTts
    \/ GlossWriteRow
    \/ GlossDone

Init == InitKelly \/ InitGloss
Next == NextKelly \/ NextGloss

\* Either script, run once.
Spec == Init /\ [][Next]_vars

\* Either script, run once and then once more.
SpecTwice == Init /\ [][Next \/ Rerun]_vars

(* ------------------------------------------------- reading the history *)

CallIdx == 1..Len(calls)
Range(seq) == {seq[j] : j \in 1..Len(seq)}

\* The rows written to the output file.
Recs == {c \in Range(out) : c.kind = "rec"}

\* The results the calls of kind op returned for row r of the current run.
Results(op, r) ==
    {calls[j].res : j \in {m \in CallIdx :
        calls[m].run = run /\ calls[m].row = r /\ calls[m].op = op}}

PrimaryOk(r) == \E id \in Results("folkets", r) : id # "none"
FallbackOk(r) == \E id \in Results("translate", r) : id # "none"
FailedBoth(r) == "none" \in Results("translate", r)

\* The file names of the [sound:...] markers of a text.
Markers(text) == {t.v : t \in {u \in Range(text) : u.k = "s"}}

Count(text, tok) == Cardinality({j \in 1..Len(text) : text[j] = tok})

\* The visible characters of a text.
Plain(text) == {t \in Range(text) : t.k = "c" /\ t \notin {NL, TAB}}

\* The text split at its newlines.
RECURSIVE Lines(_)
Lines(text) ==
    IF text = <<>> THEN <<>>
    ELSE IF NL \notin Range(text) THEN <<text>>
    ELSE LET k == CHOOSE j \in 1..Len(text) :
                     text[j] = NL /\ \A m \in 1..(j - 1) : text[m] # NL
         IN  <<SubSeq(text, 1, k - 1)>> \o Lines(SubSeq(text, k + 1, Len(text)))

RECURSIVE TextOf(_)
\* What a sequence of writes put in the file.
TextOf(chunks) ==
    IF chunks = <<>> THEN <<>> ELSE Head(chunks).text \o TextOf(Tail(chunks))

IsHdr(c) == c.kind = "hdr"
IsRec(c) == c.kind = "rec"

\* The file up to its first row, and from its first row on.
HeaderText == TextOf(SelectSeq(out, IsHdr))
DataText == TextOf(SelectSeq(out, IsRec))

\* The term whose row is being worked on is done with.
RowOver(r) == i > r \/ (i = r /\ pc \in {"loop", "done"})

(* ------------------------------------------------------------------ C1 *)

\* Every visible character the lookups of either source can return.
DocChars == UNION {Plain(get_folkets_entry(Doc(id))) : id \in DocIds}
TrChars == UNION {Plain(Tr(id).val) : id \in TrIds}

\* C1: in the Kelly pipeline the fallback lookup of a term is called only
\* after the primary lookup of that term returned nothing usable, each source
\* is called at most once per term, and the content of a written row comes
\* from exactly one of the two sources: all of what that source returned is
\* in the row and nothing of the other source is.
C1_FallbackOnlyAfterPrimaryFailed ==
    /\ \A j \in CallIdx :
         calls[j].op = "translate" =>
            \E m \in 1..(j - 1) :
               /\ calls[m].op = "folkets"
               /\ calls[m].run = calls[j].run
               /\ calls[m].row = calls[j].row
               /\ calls[m].res = "none"
    /\ \A j, m \in CallIdx :
         ( /\ calls[j].op \in {"folkets", "translate"}
           /\ calls[j].op = calls[m].op
           /\ calls[j].run = calls[m].run
           /\ calls[j].row = calls[m].row ) => j = m
    /\ \A c \in Recs :
         \/ /\ PrimaryOk(c.row)
            /\ Results("translate", c.row) = {}
            /\ \A id \in Results("folkets", c.row) :
                  Plain(get_folkets_entry(Doc(id))) \subseteq Plain(c.text)
            /\ Plain(c.text) \cap TrChars = {}
         \/ /\ ~PrimaryOk(c.row)
            /\ FallbackOk(c.row)
            /\ \A id \in Results("translate", c.row) :
                  Plain(Tr(id).val) \subseteq Plain(c.text)
            /\ Plain(c.text) \cap DocChars = {}

\* A row whose content is the fallback's, and one whose content is the primary's.
C1_Witness ==
    /\ \E c \in Recs : FallbackOk(c.row)
    /\ \E c \in Recs : PrimaryOk(c.row)

(* ------------------------------------------------------------------ C2 *)

\* The lines of the file after its header.
DataLines == Count(DataText, NL)

\* C2: in the Kelly pipeline a term for which both lookups gave no content
\* gets no row and does not abort the run; so when the run is over the number
\* of data lines is at most the number of input terms, and less than it when
\* some term failed both lookups.
C2_FailedTermLeavesNoLine ==
    /\ \A c \in Recs : ~FailedBoth(c.row)
    /\ pc = "aborted" => ~FailedBoth(i)
    /\ pc = "done" =>
         /\ DataLines <= Len(df)
         /\ (\E r \in 1..Len(df) : FailedBoth(r)) => DataLines < Len(df)

(* ------------------------------------------------------------------ C3 *)

\* C3: in the Kelly pipeline, for a term with a non-empty query string and a
\* successful primary lookup, the content of the row holds a [sound:...]
\* marker if and only if an audio file was resolved for the term, and the
\* file the marker names is the resolved file.
C3_MarkerIffAudioResolved ==
    \A c \in Recs :
       (c.query # <<>> /\ PrimaryOk(c.row)) =>
          /\ (Markers(c.text) # {}) <=> (c.sound # None)
          /\ Markers(c.text) \subseteq {c.sound}

(* ------------------------------------------------------------------ C6 *)

\* C6: in the Kelly pipeline the query string passed to a lookup or to the
\* speech synthesis is never empty.
C6_QueryNeverEmpty ==
    \A j \in CallIdx :
       calls[j].op \in {"folkets", "translate", "tts"} => calls[j].arg # <<>>

(* ------------------------------------------------------------------ C7 *)

\* C7: in both scripts every written row is exactly one line of the file and
\* has exactly the fixed number of tab-separated fields: three in the Kelly
\* pipeline, two in the glossary pipeline.
C7_OneLineFixedFields ==
    \A c \in Recs :
       /\ Count(c.text, NL) = 1
       /\ c.text[Len(c.text)] = NL
       /\ Count(c.text, TAB) + 1 = (IF script = "kelly" THEN 3 ELSE 2)

(* ------------------------------------------------------------------ C8 *)

\* C8: in both scripts the audio file named by a [sound:...] marker of a
\* written row is in the audio directory.  (Files are never removed, so the
\* file is there when the row is written if and only if it is there later.)
C8_MarkedAudioExists ==
    \A c \in Recs : Markers(c.text) \subseteq media

(* ----------------------------------------------------------------- C10 *)

\* C10: two terms with different query texts never resolve to the same
\* synthesized audio file name.
C10_SynthNamesDistinct ==
    \A c, d \in Recs :
       (c.via = "synth" /\ d.via = "synth" /\ c.query # d.query)
          => c.sound # d.sound

(* ------------------------------------------------------------------ C4 *)

\* C4 as stated: when a script is run twice over the same input, with the
\* same lookup results and the audio directory kept, the second run makes no
\* audio download and no speech-synthesis call.
C4_SecondRunMakesNoAudioCall ==
    \A j \in CallIdx :
       calls[j].run = 2 => calls[j].op \notin {"download", "tts"}

\* C4 as amended: the second run makes no speech-synthesis call, and it
\* downloads only a link whose download failed in the first run.
C4_SecondRunOnlyRetriesFailedDownloads ==
    \A j \in CallIdx :
       calls[j].run = 2 =>
          /\ calls[j].op # "tts"
          /\ calls[j].op = "download" =>
                \E m \in CallIdx :
                   /\ calls[m].run = 1
                   /\ calls[m].op = "download"
                   /\ calls[m].arg = calls[j].arg
                   /\ calls[m].res = "none"

\* A second run is over, and it wrote a row whose audio is a synthesized
\* file and a row whose audio is the file of a link.
C4_Witness ==
    /\ run = 2
    /\ pc = "done"
    /\ \E c \in Recs : c.via = "synth"
    /\ \E c \in Recs : c.via = "link"

(* ------------------------------------------------------------------ C5 *)

KellyDirectives ==
    << <<Ch("#separator:Tab")>>,
       <<Ch("#columns:Word"), TAB, Ch("Definition"), TAB, Ch("Tags")>>,
       <<Ch("#notetype:Basic")>>,
       <<Ch("#deck:KellyList")>> >>

GlossDirectives ==
    << <<Ch("#separator:Tab")>>,
       <<Ch("#columns:Swedish"), TAB, Ch("Definition")>>,
       <<Ch("#notetype:Basic")>>,
       <<Ch("#deck:LawGlossary")>> >>

Directives == IF script = "kelly" THEN KellyDirectives ELSE GlossDirectives

\* C5 as stated: in both scripts the lines of the output file before its
\* first row are exactly the four directive lines, in their order.
C5_HeaderIsFourDirectives ==
    out # <<>> => Lines(HeaderText) = Directives

\* C5 as amended: the lines before the first row are the four directive
\* lines, in their order, in the Kelly pipeline; in the glossary pipeline
\* they are the four directive lines followed by one empty line.
C5_HeaderIsDirectivesThenBlankInGloss ==
    out # <<>> =>
       Lines(HeaderText) =
          IF script = "kelly" THEN KellyDirectives
          ELSE GlossDirectives \o << <<>> >>

\* The glossary pipeline has written its header and a row with a tab and a
\* newline in its content.
C5_Witness ==
    /\ script = "gloss"
    /\ \E c \in Recs : Count(c.text, TAB) > 1 /\ Count(c.text, NL) > 1

(* ------------------------------------------------------------------ C9 *)

\* The failed downloads of the current run.
FailedDownloads ==
    {j \in CallIdx : /\ calls[j].run = run
                     /\ calls[j].op = "download"
                     /\ calls[j].res = "none"}

\* Term r has a row, and the audio resolved for it is the file synthesized
\* from its query text.
RowWithSynth(r) ==
    {c \in Recs : /\ c.row = r
                  /\ c.via = "synth"
                  /\ c.sound = SafeName(c.query) \o <<".mp3">>
                  /\ c.sound \in media}

====
